---- MODULE Spec2Model ----
(***************************************************************************)
(* Time-lord period resolvers of backend/advanced_timing.py                *)
(* (AdvancedTimingTechniques): zodiacal releasing, Vimshottari dasha and   *)
(* Firdaria, over the natal snapshot taken in __init__.                    *)
(*                                                                         *)
(* Units.  Longitudes are integers in micro-degrees (24.12 and 13.333333   *)
(* are exact).  Instants are integers in ticks, the resolution of          *)
(* datetime/timedelta, counted from midnight of the birth date; a          *)
(* timedelta built from a fractional number of days is rounded to the      *)
(* nearest tick, ties to even, as timedelta(days=x) does.  Python floats   *)
(* are modelled as exact rationals: their relative error (1e-16) is far    *)
(* below one tick and below the distance of any quotient computed here     *)
(* from the next integer.  A Python None is the empty sequence, a value v  *)
(* that may be None is <<v>>.                                              *)
(***************************************************************************)
EXTENDS Integers, Sequences, FiniteSets, TLC

VARIABLES natal, birth_time, pc, call, result, constructed, earlier

vars == <<natal, birth_time, pc, call, result, constructed, earlier>>

None == <<>>

Some(v) == <<v>>

(***************************************************************************)
(* Bounds of the model.                                                    *)
(***************************************************************************)
\* last query date (days after the birth date) of the releasing runs
MaxZRDay == 2900

\* last query date of the Firdaria runs: past the end of the 75-year cycle
MaxFirdariaDay == 27500

\* last query date of the Vimshottari runs: past the first return of the
\* starting ruler
MaxVimshottariDay == 42000

\* last query date of the runs of the three resolvers together
MaxDay == 40

\* number of 400-day steps of the query dates of the runs of several calls
MaxHistoryStep == 4

\* most days between the first and the last date of an analysed range
MaxExtent == 11

(***************************************************************************)
(* Units.                                                                  *)
(***************************************************************************)
\* micro-degrees in one degree
Deg == 1000000

\* ticks (timedelta resolution units) in one day
TicksPerDay == 160

\* ticks in one year of 365.25 days
TicksPerYear == (1461 * TicksPerDay) \div 4

\* Lahiri ayanamsa, 24.12 degrees
ayanamsa == 24120000

\* width of a nakshatra, 13.333333 degrees
nakshatra_span == 13333333

(***************************************************************************)
(* Sign tables and helpers.                                                *)
(***************************************************************************)
signs == <<"Aries", "Taurus", "Gemini", "Cancer", "Leo", "Virgo",
           "Libra", "Scorpio", "Sagittarius", "Capricorn", "Aquarius", "Pisces">>

sign_index(sign) == CHOOSE i \in 1..12 : signs[i] = sign

\* the table with the year-counts of Leo and Virgo exchanged
sign_periods_exchanged ==
    [Aries |-> 15, Taurus |-> 8, Gemini |-> 20, Cancer |-> 25,
     Leo |-> 20, Virgo |-> 19, Libra |-> 8, Scorpio |-> 15,
     Sagittarius |-> 12, Capricorn |-> 27, Aquarius |-> 30, Pisces |-> 12]

sign_periods == [Aries |-> 15, Taurus |-> 8, Gemini |-> 20, Cancer |-> 25,
                 Leo |-> 19, Virgo |-> 20, Libra |-> 8, Scorpio |-> 15,
                 Sagittarius |-> 12, Capricorn |-> 27, Aquarius |-> 30, Pisces |-> 12]

_get_sign_ruler(sign) ==
    [Aries |-> "mars", Taurus |-> "venus", Gemini |-> "mercury",
     Cancer |-> "moon", Leo |-> "sun", Virgo |-> "mercury",
     Libra |-> "venus", Scorpio |-> "mars", Sagittarius |-> "jupiter",
     Capricorn |-> "saturn", Aquarius |-> "saturn", Pisces |-> "jupiter"][sign]

\* the step of one sign taken backward
_get_previous_sign(current_sign) == signs[((sign_index(current_sign) - 1 + 11) % 12) + 1]

\* signs[(current_index + 1) % 12], with the 0-based index of the code
_get_next_sign(current_sign) == signs[((sign_index(current_sign) - 1 + 1) % 12) + 1]

\* the descent taken one sign forward
_get_next_zr_sign_forward(current_sign) ==
    signs[((sign_index(current_sign) - 1 + 1) % 12) + 1]

\* signs[(current_index + 11) % 12]
_get_next_zr_sign(current_sign) == signs[((sign_index(current_sign) - 1 + 11) % 12) + 1]

\* signs[int(longitude / 30)]: an IndexError when the index is 12
get_zodiac_sign(longitude) ==
    LET i == longitude \div (30 * Deg)
    IN  IF i < 12 THEN [exc |-> "none", sign |-> signs[i + 1]]
        ELSE [exc |-> "IndexError", sign |-> "none"]

(***************************************************************************)
(* The natal snapshot: natal_planets, natal_houses, calc.birth_datetime.   *)
(***************************************************************************)
is_day_birth(n) == n.sun > n.asc \/ n.sun < n.asc - 180 * Deg

\* the wrap of a lot into the circle: +360 below 0, -360 above 360
wrap_lot(x) == IF x < 0 THEN x + 360 * Deg
               ELSE IF x > 360 * Deg THEN x - 360 * Deg ELSE x

calculate_arabic_parts(n) ==
    LET pof == wrap_lot(IF is_day_birth(n) THEN n.asc + n.moon - n.sun
                        ELSE n.asc + n.sun - n.moon)
    IN  [exc |-> get_zodiac_sign(pof).exc, part_of_fortune |-> pof,
         sign |-> get_zodiac_sign(pof).sign]

_calculate_lot_of_spirit(n) ==
    wrap_lot(IF is_day_birth(n) THEN n.asc + n.sun - n.moon
             ELSE n.asc + n.moon - n.sun)

\* (date - calc.birth_datetime).days for a date parsed from "%Y-%m-%d":
\* the floor of the difference in days
days_between(date, bt) == (date * TicksPerDay - bt) \div TicksPerDay

(***************************************************************************)
(* Zodiacal releasing.                                                     *)
(***************************************************************************)
_get_angular_signs_from_fortune(n) ==
    LET fortune_index == sign_index(calculate_arabic_parts(n).sign) - 1
    IN  { signs[((fortune_index + k) % 12) + 1] : k \in {0, 3, 6, 9} }

_is_peak_period(n, sign) == sign \in _get_angular_signs_from_fortune(n)

\* the flag raised at level 1 as well
_check_loosening_bond_any_level(sign, level) ==
    _get_sign_ruler(sign) \in {"mars", "saturn"} /\ level >= 1

_check_loosening_bond(sign, level) ==
    _get_sign_ruler(sign) \in {"mars", "saturn"} /\ level >= 2

\* the period lengths with level-1 years of 365 days
zr_period_days_365(current_sign, level) ==
    LET period_years == sign_periods[current_sign]
    IN  CASE level = 2 -> period_years * 30
          [] level = 3 -> period_years * 7
          [] level = 4 -> period_years
          [] OTHER -> period_years * 365

zr_period_days(current_sign, level) ==
    LET period_years == sign_periods[current_sign]
    IN  CASE level = 2 -> period_years * 30
          [] level = 3 -> period_years * 7
          [] level = 4 -> period_years
          [] OTHER -> period_years * 360

\* the entry with its last day in place of the day after it
zr_entry_inclusive(n, current_sign, level, current_days) ==
    [level |-> level, sign |-> current_sign,
     ruler |-> _get_sign_ruler(current_sign),
     start_days |-> current_days,
     end_days |-> current_days + zr_period_days(current_sign, level) - 1,
     peak |-> _is_peak_period(n, current_sign),
     loosening |-> _check_loosening_bond(current_sign, level)]

\* the entry periods.append adds for the period walked
zr_entry(n, current_sign, level, current_days) ==
    [level |-> level, sign |-> current_sign,
     ruler |-> _get_sign_ruler(current_sign),
     start_days |-> current_days,
     end_days |-> current_days + zr_period_days(current_sign, level),
     peak |-> _is_peak_period(n, current_sign),
     loosening |-> _check_loosening_bond(current_sign, level)]

\* the loop condition with the fourth level left out
zr_continues_three_levels(current_days, level, days_elapsed) ==
    current_days < days_elapsed /\ level < 4

\* the loop condition that also walks when the cursor is at days_elapsed
zr_continues_at_target(current_days, level, days_elapsed) ==
    current_days <= days_elapsed /\ level <= 4

\* while current_days < days_elapsed and level <= 4
zr_continues(current_days, level, days_elapsed) ==
    current_days < days_elapsed /\ level <= 4

\* the while loop of calculate_zodiacal_releasing: the loop variables at exit
RECURSIVE zr_loop(_, _, _, _, _, _)
zr_loop(n, periods, current_days, current_sign, level, days_elapsed) ==
    IF ~zr_continues(current_days, level, days_elapsed)
    THEN [periods |-> periods, current_days |-> current_days,
          current_sign |-> current_sign, level |-> level]
    ELSE LET period_days == zr_period_days(current_sign, level)
             entry == zr_entry(n, current_sign, level, current_days)
         IN  IF current_days + period_days > days_elapsed
             THEN zr_loop(n, Append(periods, entry), current_days,
                          IF level + 1 <= 4 THEN _get_next_zr_sign(current_sign)
                          ELSE current_sign,
                          level + 1, days_elapsed)
             ELSE zr_loop(n, Append(periods, entry), current_days + period_days,
                          _get_next_sign(current_sign), level, days_elapsed)

\* the periods list the loop leaves
zr_walk(n, periods, current_days, current_sign, level, days_elapsed) ==
    zr_loop(n, periods, current_days, current_sign, level, days_elapsed).periods

calculate_zodiacal_releasing(n, bt, starting_lot, target_date) ==
    LET lots == calculate_arabic_parts(n)
        starting_point == IF starting_lot = "fortune" THEN lots.part_of_fortune
                          ELSE _calculate_lot_of_spirit(n)
        sign == get_zodiac_sign(starting_point)
        days_elapsed == days_between(target_date, bt)
    IN  IF lots.exc # "none" THEN [exc |-> lots.exc, ret |-> None]
        ELSE IF sign.exc # "none" THEN [exc |-> sign.exc, ret |-> None]
        ELSE [exc |-> "none",
              ret |-> zr_walk(n, <<>>, 0, sign.sign, 1, days_elapsed)]

(***************************************************************************)
(* Rationals: <<n, d>> with d > 0 stands for the float n / d.              *)
(***************************************************************************)
Rat(n, d) == [num |-> n, den |-> d]

\* int(x) of a rational: truncation toward zero
rat_int(x) == IF x.num >= 0 THEN x.num \div x.den ELSE -((-x.num) \div x.den)

\* x / y for y > 0
rat_div(x, y) == Rat(x.num * y.den, x.den * y.num)

rat_sub(x, y) == Rat(x.num * y.den - y.num * x.den, x.den * y.den)

rat_lt(x, y) == x.num * y.den < y.num * x.den

rat_le(x, y) == x.num * y.den <= y.num * x.den

(***************************************************************************)
(* Firdaria.                                                               *)
(***************************************************************************)
firdaria_day_sequence ==
    << <<"sun", 10>>, <<"venus", 8>>, <<"mercury", 13>>, <<"moon", 9>>,
       <<"saturn", 11>>, <<"jupiter", 12>>, <<"mars", 7>>,
       <<"north_node", 3>>, <<"south_node", 2>> >>

\* variant: the night sequence with mercury given 12 years
firdaria_night_sequence_short ==
    << <<"moon", 9>>, <<"saturn", 11>>, <<"jupiter", 12>>, <<"mars", 7>>,
       <<"sun", 10>>, <<"venus", 8>>, <<"mercury", 12>>,
       <<"north_node", 3>>, <<"south_node", 2>> >>

firdaria_night_sequence ==
    << <<"moon", 9>>, <<"saturn", 11>>, <<"jupiter", 12>>, <<"mars", 7>>,
       <<"sun", 10>>, <<"venus", 8>>, <<"mercury", 13>>,
       <<"north_node", 3>>, <<"south_node", 2>> >>

firdaria_sequence(n) ==
    IF is_day_birth(n) THEN firdaria_day_sequence ELSE firdaria_night_sequence

\* the seven bodies in Chaldean order
chaldean_planets == <<"saturn", "jupiter", "mars", "sun", "venus", "mercury", "moon">>

firdaria_planets == <<"sun", "venus", "mercury", "moon", "saturn", "jupiter", "mars">>

\* planets.remove(major_planet); planets.insert(0, major_planet)
firdaria_sub_order(major_planet) ==
    IF \E i \in 1..Len(firdaria_planets) : firdaria_planets[i] = major_planet
    THEN <<major_planet>> \o SelectSeq(firdaria_planets, LAMBDA p : p # major_planet)
    ELSE firdaria_planets

\* variant: the major period divided by the nine rulers of the sequence
\* instead of the seven bodies
_calculate_firdaria_subperiod_ninths(major_planet, total_years, years_in) ==
    LET planets == firdaria_sub_order(major_planet)
        sub_years == Rat(total_years, 9)
        current_sub == rat_int(rat_div(years_in, sub_years))
    IN  IF current_sub < Len(planets)
        THEN Some([ruler |-> planets[current_sub + 1], years |-> sub_years,
                   position |-> current_sub + 1])
        ELSE None

_calculate_firdaria_subperiod(major_planet, total_years, years_in) ==
    LET planets == firdaria_sub_order(major_planet)
        sub_years == Rat(total_years, 7)
        current_sub == rat_int(rat_div(years_in, sub_years))
    IN  IF current_sub < Len(planets)
        THEN Some([ruler |-> planets[current_sub + 1], years |-> sub_years,
                   position |-> current_sub + 1])
        ELSE None

\* the for loop of calculate_firdaria from entry i of the sequence on
RECURSIVE firdaria_walk(_, _, _, _)
firdaria_walk(sequence, i, current_years, years_elapsed) ==
    IF i > Len(sequence) THEN None
    ELSE LET planet == sequence[i][1]
             years == sequence[i][2]
         IN  IF /\ rat_le(Rat(current_years, 1), years_elapsed)
                /\ rat_lt(years_elapsed, Rat(current_years + years, 1))
             THEN LET years_into_period == rat_sub(years_elapsed, Rat(current_years, 1))
                  IN  Some([major_period |-> planet,
                            years_in |-> years_into_period,
                            years_remaining |-> rat_sub(Rat(years, 1), years_into_period),
                            sub_period |-> _calculate_firdaria_subperiod(
                                               planet, years, years_into_period),
                            period_years |-> years,
                            sequence |-> sequence])
             ELSE firdaria_walk(sequence, i + 1, current_years + years, years_elapsed)

calculate_firdaria(n, bt, current_date) ==
    LET days_elapsed == days_between(current_date, bt)
        \* days_elapsed / 365.25
        years_elapsed == Rat(days_elapsed * 4, 1461)
    IN  [exc |-> "none",
         ret |-> firdaria_walk(firdaria_sequence(n), 1, 0, years_elapsed)]

(***************************************************************************)
(* Vimshottari dasha.                                                      *)
(* A duration in years is [whole, num, den], the float whole * num / den:  *)
(* a table number of years times the unelapsed portion of the natal        *)
(* nakshatra.                                                              *)
(***************************************************************************)
RECURSIVE gcd(_, _)
gcd(a, b) == IF b = 0 THEN a ELSE gcd(b, a % b)

\* <<q, r>> with a * n = q * d + r and 0 <= r < d, by doubling, so that no
\* intermediate value exceeds 2 * d + n
RECURSIVE mul_divmod(_, _, _)
mul_divmod(a, n, d) ==
    IF a = 0 THEN <<0, 0>>
    ELSE IF d = 1 THEN <<a * n, 0>>
    ELSE LET h == mul_divmod(a \div 2, n, d)
             r == 2 * h[2] + (a % 2) * n
         IN  <<2 * h[1] + (r \div d), r % d>>

\* round(a * n / d) to the nearest integer, ties to even
round_half_even(a, n, d) ==
    LET qr == mul_divmod(a, n, d)
    IN  IF 2 * qr[2] < d THEN qr[1]
        ELSE IF 2 * qr[2] > d THEN qr[1] + 1
        ELSE qr[1] + (qr[1] % 2)

\* timedelta(days=years * 365.25), in ticks
years_timedelta(years) ==
    LET g == gcd(TicksPerYear, years.den)
    IN  round_half_even(years.whole * (TicksPerYear \div g), years.num, years.den \div g)

\* the sequence with rahu and jupiter exchanged
dasha_sequence_exchanged ==
    << <<"ketu", 7>>, <<"venus", 20>>, <<"sun", 6>>, <<"moon", 10>>,
       <<"mars", 7>>, <<"jupiter", 16>>, <<"rahu", 18>>, <<"saturn", 19>>,
       <<"mercury", 17>> >>

dasha_sequence ==
    << <<"ketu", 7>>, <<"venus", 20>>, <<"sun", 6>>, <<"moon", 10>>,
       <<"mars", 7>>, <<"rahu", 18>>, <<"jupiter", 16>>, <<"saturn", 19>>,
       <<"mercury", 17>> >>

dasha_rulers == <<"ketu", "venus", "sun", "moon", "mars", "rahu",
                  "jupiter", "saturn", "mercury">>

nakshatra_rulers == dasha_rulers \o dasha_rulers \o dasha_rulers

dasha_years == [ketu |-> 7, venus |-> 20, sun |-> 6, moon |-> 10,
                mars |-> 7, rahu |-> 18, jupiter |-> 16, saturn |-> 19,
                mercury |-> 17]

\* the index of the natural first ruler, whatever the ruler asked for
dasha_index_of_first(ruler) == 1

\* sequence.index(ruler), 1-based
dasha_index_of(ruler) == CHOOSE i \in 1..9 : dasha_rulers[i] = ruler

moon_sidereal(n) ==
    IF n.moon - ayanamsa < 0 THEN n.moon - ayanamsa + 360 * Deg ELSE n.moon - ayanamsa

\* int(moon_sidereal / 13.333333)
nakshatra(n) == moon_sidereal(n) \div nakshatra_span

\* moon_sidereal % 13.333333
nakshatra_degree(n) == moon_sidereal(n) % nakshatra_span

\* the years of the band already traversed, in place of the years remaining
elapsed_years(n) ==
    [whole |-> dasha_years[nakshatra_rulers[nakshatra(n) + 1]],
     num |-> nakshatra_degree(n), den |-> nakshatra_span]

\* first_dasha_years * (1 - nakshatra_degree / 13.333333)
remaining_years(n) ==
    [whole |-> dasha_years[nakshatra_rulers[nakshatra(n) + 1]],
     num |-> nakshatra_span - nakshatra_degree(n), den |-> nakshatra_span]

\* the antardashas list built by the for loop of _calculate_antardasha, from
\* entry i of the rotated sequence on
RECURSIVE antardasha_walk(_, _, _, _)
antardasha_walk(mahadasha, i, antardashas, current_start) ==
    IF i > 9 THEN antardashas
    ELSE LET start_index == dasha_index_of(mahadasha.mahadasha)
             \* sequence[start_index:] + sequence[:start_index]
             planet == dasha_rulers[((start_index - 1 + i - 1) % 9) + 1]
             years == [whole |-> dasha_years[planet] * mahadasha.years.whole,
                       num |-> mahadasha.years.num,
                       den |-> mahadasha.years.den * 120]
             end == current_start + years_timedelta(years)
             antardasha_data == [planet |-> planet, start |-> current_start,
                                 end |-> end, years |-> years]
         IN  IF end > mahadasha.end
             THEN Append(antardashas, antardasha_data)
             ELSE antardasha_walk(mahadasha, i + 1,
                                  Append(antardashas, antardasha_data), end)

antardasha_list(mahadasha) == antardasha_walk(mahadasha, 1, <<>>, mahadasha.start)

\* the indices of the periods of a list with start <= instant < end
active_indices(list, instant) ==
    { i \in 1..Len(list) : list[i].start <= instant /\ instant < list[i].end }

set_min(S) == CHOOSE i \in S : \A j \in S : i <= j

set_max(S) == CHOOSE i \in S : \A j \in S : i >= j

_calculate_antardasha(mahadasha, current_date) ==
    LET antardashas == antardasha_list(mahadasha)
        upcoming == SelectSeq(antardashas, LAMBDA a : a.start > current_date)
        \* every match overwrites current_antardasha: the last one stays
        active == active_indices(antardashas, current_date)
    IN  [current |-> IF active = {} THEN None ELSE Some(antardashas[set_max(active)]),
         upcoming |-> SubSeq(upcoming, 1, IF Len(upcoming) < 3 THEN Len(upcoming) ELSE 3)]

\* the while loop that adds the subsequent dashas
RECURSIVE dasha_walk(_, _, _, _)
dasha_walk(dashas, current_dasha_end, dasha_index, limit) ==
    IF ~(current_dasha_end < limit) THEN dashas
    ELSE LET ruler == dasha_sequence[dasha_index + 1][1]
             years == dasha_sequence[dasha_index + 1][2]
             end == current_dasha_end
                      + years_timedelta([whole |-> years, num |-> 1, den |-> 1])
         IN  dasha_walk(Append(dashas, [mahadasha |-> ruler, start |-> current_dasha_end,
                                        end |-> end,
                                        years |-> [whole |-> years, num |-> 1, den |-> 1]]),
                        end, (dasha_index + 1) % 9, limit)

calculate_vimshottari_dasha(n, bt, date) ==
    IF nakshatra(n) >= Len(nakshatra_rulers) THEN [exc |-> "IndexError", ret |-> None]
    ELSE
    LET current_date == date * TicksPerDay
        starting_ruler == nakshatra_rulers[nakshatra(n) + 1]
        first_dasha_index == dasha_index_of(starting_ruler) - 1
        current_dasha_end == bt + years_timedelta(remaining_years(n))
        dashas == dasha_walk(<<[mahadasha |-> starting_ruler, start |-> bt,
                                end |-> current_dasha_end,
                                years |-> remaining_years(n)]>>,
                             current_dasha_end, (first_dasha_index + 1) % 9,
                             current_date + 3650 * TicksPerDay)
        \* the for loop breaks at the first match
        active == active_indices(dashas, current_date)
        current_dasha == IF active = {} THEN None ELSE Some(dashas[set_min(active)])
    IN  \* mahadasha['mahadasha'] of None in _calculate_antardasha
        IF current_dasha = None THEN [exc |-> "TypeError", ret |-> None]
        ELSE LET antardashas == _calculate_antardasha(current_dasha[1], current_date)
             IN  [exc |-> "none",
                  ret |-> [current_mahadasha |-> current_dasha,
                           current_antardasha |-> antardashas.current,
                           next_antardashas |-> antardashas.upcoming,
                           all_dashas |-> dashas]]

(***************************************************************************)
(* Composite timing analysis.                                              *)
(* The transits of a date and the positions of Sun and node at the eclipse *)
(* check dates come from the ephemeris, and `now` from the clock: they are *)
(* inputs of the call.  All calls to datetime.now() within one analysis    *)
(* read the same instant.  The profection_activated and progressions      *)
(* fields of an entry enter no score and are left out.                     *)
(***************************************************************************)
abs(x) == IF x < 0 THEN -x ELSE x

\* calc.calculate_transits(date_str), by aspect name, under three ephemerides
transits_on(ephemeris, date) ==
    CASE ephemeris = "quiet" -> <<>>
      [] ephemeris = "steady" -> <<"square", "conjunction", "opposition">>
      [] OTHER -> SubSeq(<<"trine", "square", "opposition">>, 1, 1 + (date % 3))

\* [t for t in transits if t['aspect'] in ['square', 'opposition']]
hard_transits(transits) ==
    SelectSeq(transits, LAMBDA aspect : aspect \in {"square", "opposition"})

\* range(0, years_range * 365, 173) with years_range = 2
eclipse_check_days == <<0, 173, 346, 519, 692>>

check_points(n) ==
    << <<"sun", n.sun>>, <<"moon", n.moon>>, <<"asc", n.asc>>, <<"mc", n.mc>> >>

\* the two nested for loops of calculate_eclipse_sensitivity, flattened:
\* step i is check date (i \div 4) + 1 against check point (i % 4) + 1
RECURSIVE eclipse_walk(_, _, _, _)
eclipse_walk(n, sky, i, sensitive_points) ==
    IF i >= 4 * Len(eclipse_check_days) THEN sensitive_points
    ELSE LET days == eclipse_check_days[(i \div 4) + 1]
             position == sky.positions[(i \div 4) + 1]
             point == check_points(n)[(i % 4) + 1]
             eclipse_degree == position.sun
         IN  IF /\ abs(position.sun - position.node) < 18 * Deg
                /\ abs(eclipse_degree - point[2]) < 5 * Deg
             THEN eclipse_walk(n, sky, i + 1,
                               Append(sensitive_points,
                                      [date |-> sky.now + days * TicksPerDay,
                                       eclipse_degree |-> eclipse_degree,
                                       natal_point |-> point[1]]))
             ELSE eclipse_walk(n, sky, i + 1, sensitive_points)

calculate_eclipse_sensitivity(n, sky) == eclipse_walk(n, sky, 0, <<>>)

\* (eclipse['date'] - current).days, current at midnight of day `date`
eclipse_days(eclipse, date) == (eclipse.date - date * TicksPerDay) \div TicksPerDay

\* the score with the two malefic bonuses both at 4
intensity_score_flat(transits, dasha, firdaria, eclipses, date) ==
    Len(hard_transits(transits)) * 3
    + (IF dasha \in {"mars", "saturn", "rahu", "ketu"} THEN 4 ELSE 0)
    + (IF firdaria # None /\ firdaria \in {<<"mars">>, <<"saturn">>, <<"south_node">>}
       THEN 4 ELSE 0)
    + 10 * Cardinality({ i \in 1..Len(eclipses) :
                           abs(eclipse_days(eclipses[i], date)) < 30 })

intensity_score(transits, dasha, firdaria, eclipses, date) ==
    Len(hard_transits(transits)) * 3
    + (IF dasha \in {"mars", "saturn", "rahu", "ketu"} THEN 5 ELSE 0)
    + (IF firdaria # None /\ firdaria \in {<<"mars">>, <<"saturn">>, <<"south_node">>}
       THEN 4 ELSE 0)
    \* the for loop adds 10 for every record within the window
    + 10 * Cardinality({ i \in 1..Len(eclipses) :
                           abs(eclipse_days(eclipses[i], date)) < 30 })

\* the dates of a loop that stops one day short of `end`
analysis_dates_exclusive(start, end) == [i \in 1..(end - start) |-> start + i - 1]

\* the dates the loop `while current <= end` visits, in order
analysis_dates(start, end) == [i \in 1..(end - start + 1) |-> start + i - 1]

\* the position of e in a list sorted by descending score, before its equals
insert_position_before_equals(sorted, e) ==
    Cardinality({ i \in 1..Len(sorted) :
                    sorted[i].intensity_score > e.intensity_score })

\* the position of e in a list sorted by descending score: list.sort is
\* stable, also with reverse=True, so e goes after the entries of equal score
insert_position(sorted, e) ==
    Cardinality({ i \in 1..Len(sorted) :
                    sorted[i].intensity_score >= e.intensity_score })

\* analysis.sort(key=lambda x: x['intensity_score'], reverse=True)
RECURSIVE sort_by_intensity_score(_, _, _)
sort_by_intensity_score(analysis, i, sorted) ==
    IF i > Len(analysis) THEN sorted
    ELSE LET k == insert_position(sorted, analysis[i])
         IN  sort_by_intensity_score(analysis, i + 1,
                                     SubSeq(sorted, 1, k) \o <<analysis[i]>>
                                       \o SubSeq(sorted, k + 1, Len(sorted)))

\* the factors of one date, with its score
date_factors(n, bt, date, ephemeris, sky) ==
    LET transits == transits_on(ephemeris, date)
        dasha == calculate_vimshottari_dasha(n, bt, date).ret.current_mahadasha[1].mahadasha
        firdaria == calculate_firdaria(n, bt, date).ret
        major == IF firdaria # None THEN Some(firdaria[1].major_period) ELSE None
    IN  [date |-> date, transits |-> Len(transits), dasha |-> dasha,
         firdaria |-> major,
         intensity_score |-> intensity_score(transits, dasha, major,
                                             calculate_eclipse_sensitivity(n, sky),
                                             date)]

composite_timing_analysis(n, bt, date_range_start, date_range_end, ephemeris, sky) ==
    LET dates == analysis_dates(date_range_start, date_range_end)
        \* the dates on which calculate_vimshottari_dasha raises
        raising == { i \in 1..Len(dates) :
                       calculate_vimshottari_dasha(n, bt, dates[i]).exc # "none" }
    IN  IF raising # {}
        THEN [exc |-> calculate_vimshottari_dasha(n, bt, dates[set_min(raising)]).exc,
              ret |-> None]
        ELSE LET analysis == sort_by_intensity_score(
                               [i \in 1..Len(dates) |->
                                  date_factors(n, bt, dates[i], ephemeris, sky)],
                               1, <<>>)
             IN  [exc |-> "none",
                  ret |-> [peak_intensity_dates |->
                              SubSeq(analysis, 1,
                                     IF Len(analysis) < 10 THEN Len(analysis) ELSE 10),
                           full_analysis |-> analysis]]

(***************************************************************************)
(* States and actions.  One action per resolver call on an instance whose  *)
(* natal snapshot was taken at construction; the date is always given (the *)
(* datetime.now() default is not modelled) and is a well-formed            *)
(* "%Y-%m-%d" string, the day number `date` after the birth date.          *)
(***************************************************************************)
\* ascendants that put the lots in each of the twelve signs
ZRAscendants == { (5 + 30 * k) * Deg : k \in 0..11 }

\* natal Moons (tropical): 40% through nakshatra 3; 111807 and 90
\* micro-degrees before the end of nakshatra 3; at the start of nakshatra 0;
\* just below the ayanamsa, in the last 9 micro-degrees of the sidereal circle
VimshottariMoons == {69453332, 77341525, 77453242, 24120000, 24119995}

\* a day birth (Sun above the ascendant) and a night birth
FirdariaSuns == {200 * Deg, 5 * Deg}

\* birth at midnight and later in the day
BirthTimes == {0, 60}

InitWith(natals) ==
    /\ natal \in natals
    /\ birth_time \in BirthTimes
    /\ pc = "ready"
    /\ call = [op |-> "none"]
    /\ result = [exc |-> "none", ret |-> None]
    \* the snapshot as __init__ took it, kept for reference
    /\ constructed = [natal |-> natal, birth_time |-> birth_time]
    \* the call the instance served before the one in `call`, if any
    /\ earlier = None

ZodiacalReleasing(dates) ==
    /\ pc = "ready"
    /\ \E starting_lot \in {"fortune", "spirit"}, target_date \in dates :
          /\ call' = [op |-> "zodiacal_releasing", starting_lot |-> starting_lot,
                      date |-> target_date]
          /\ result' = calculate_zodiacal_releasing(natal, birth_time,
                                                    starting_lot, target_date)
    /\ pc' = "done"
    /\ UNCHANGED <<natal, birth_time, constructed, earlier>>

\* the call with the sidereal Moon written back into natal_planets
VimshottariDasha_in_place(dates) ==
    /\ pc = "ready"
    /\ \E current_date \in dates :
          /\ call' = [op |-> "vimshottari_dasha", date |-> current_date]
          /\ result' = calculate_vimshottari_dasha(natal, birth_time, current_date)
    /\ pc' = "done"
    /\ natal' = [natal EXCEPT !.moon = moon_sidereal(natal)]
    /\ UNCHANGED <<birth_time, constructed, earlier>>

VimshottariDasha(dates) ==
    /\ pc = "ready"
    /\ \E current_date \in dates :
          /\ call' = [op |-> "vimshottari_dasha", date |-> current_date]
          /\ result' = calculate_vimshottari_dasha(natal, birth_time, current_date)
    /\ pc' = "done"
    /\ UNCHANGED <<natal, birth_time, constructed, earlier>>

\* the call with the birth instant cut back to midnight on the calculator
Firdaria_birth_at_midnight(dates) ==
    /\ pc = "ready"
    /\ \E current_date \in dates :
          /\ call' = [op |-> "firdaria", date |-> current_date]
          /\ result' = calculate_firdaria(natal, 0, current_date)
    /\ pc' = "done"
    /\ birth_time' = 0
    /\ UNCHANGED <<natal, constructed, earlier>>

Firdaria(dates) ==
    /\ pc = "ready"
    /\ \E current_date \in dates :
          /\ call' = [op |-> "firdaria", date |-> current_date]
          /\ result' = calculate_firdaria(natal, birth_time, current_date)
    /\ pc' = "done"
    /\ UNCHANGED <<natal, birth_time, constructed, earlier>>

\* zodiacal releasing alone, every date up to MaxZRDay
InitZR == InitWith([moon : {100 * Deg}, sun : {200 * Deg}, asc : ZRAscendants])

NextZR == ZodiacalReleasing(-1..MaxZRDay)

SpecZR == InitZR /\ [][NextZR]_vars

\* Firdaria alone, every date up to MaxFirdariaDay
InitFirdaria == InitWith([moon : {100 * Deg}, sun : FirdariaSuns, asc : {10 * Deg}])

NextFirdaria == Firdaria(-1..MaxFirdariaDay)

SpecFirdaria == InitFirdaria /\ [][NextFirdaria]_vars

\* Vimshottari alone, every date up to MaxVimshottariDay
InitVimshottari ==
    InitWith([moon : VimshottariMoons, sun : {200 * Deg}, asc : {10 * Deg}])

NextVimshottari == VimshottariDasha(-1..MaxVimshottariDay)

SpecVimshottari == InitVimshottari /\ [][NextVimshottari]_vars

\* the three resolvers on one instance, every date up to MaxDay
Init == InitWith([moon : VimshottariMoons, sun : FirdariaSuns, asc : ZRAscendants])

Next ==
    \/ ZodiacalReleasing(-1..MaxDay)
    \/ VimshottariDasha(-1..MaxDay)
    \/ Firdaria(-1..MaxDay)

Spec == Init /\ [][Next]_vars

\* a resolver has returned to its caller: the instance takes another call
Return ==
    /\ pc = "done"
    /\ pc' = "ready"
    /\ earlier' = Some([call |-> call, result |-> result])
    /\ UNCHANGED <<natal, birth_time, call, result, constructed>>

\* the query dates of the runs of several calls: around the birth date, then
\* every 400 days
HistoryDates == {-1, 0, 1} \cup { 400 * k : k \in 1..MaxHistoryStep }

\* any sequence of calls of the three resolvers on one instance
InitHistory ==
    InitWith([moon : {69453332, 24120000}, sun : FirdariaSuns,
              asc : {5 * Deg, 215 * Deg}])

NextHistory ==
    \/ ZodiacalReleasing(HistoryDates)
    \/ VimshottariDasha(HistoryDates)
    \/ Firdaria(HistoryDates)
    \/ Return

SpecHistory == InitHistory /\ [][NextHistory]_vars

\* first dates of the analysed ranges: around the birth date, inside and at
\* the edge of the eclipse window, and before the ninth birthday
CompositeStarts == {-1, 0, 15, 45, 3280}

\* the clock at the time of the analysis
Clocks == {20 * TicksPerDay + 60}

\* Sun and node at one check date, away from the node and in the eclipse zone
away == [sun |-> 100 * Deg, node |-> 200 * Deg]

eclipse_at(longitude) == [sun |-> longitude, node |-> longitude + 7 * Deg]

\* Sun and node at the five check dates: no eclipse, an eclipse now at 3
\* degrees, an eclipse now at 202 degrees
EclipsePositions ==
    { <<away, away, away, away, away>>,
      <<eclipse_at(3 * Deg), away, away, away, away>>,
      <<eclipse_at(202 * Deg), away, away, away, away>> }

Skies == [now : Clocks, positions : EclipsePositions]

\* the analysis of one range, its first date, length, ephemeris and sky drawn
\* from the given sets
CompositeTimingAnalysisOver(starts, extents, ephemerides, skies) ==
    /\ pc = "ready"
    /\ \E date_range_start \in starts, extent \in extents,
          ephemeris \in ephemerides, sky \in skies :
          /\ call' = [op |-> "composite_timing_analysis",
                      date_range_start |-> date_range_start,
                      date_range_end |-> date_range_start + extent,
                      ephemeris |-> ephemeris, sky |-> sky]
          /\ result' = composite_timing_analysis(natal, birth_time, date_range_start,
                                                 date_range_start + extent,
                                                 ephemeris, sky)
    /\ pc' = "done"
    /\ UNCHANGED <<natal, birth_time, constructed, earlier>>

CompositeTimingAnalysis(starts) ==
    CompositeTimingAnalysisOver(starts, -2..MaxExtent,
                                {"quiet", "steady", "varying"}, Skies)

\* the composite analysis over short date ranges
InitComposite ==
    InitWith([moon : {69453332, 24120000}, sun : FirdariaSuns,
              asc : {5 * Deg, 215 * Deg}, mc : {280 * Deg}])

NextComposite == CompositeTimingAnalysis(CompositeStarts)

SpecComposite == InitComposite /\ [][NextComposite]_vars

\* the ranges analysed in the runs of several calls: one date and three
\* dates, from the birth date and from inside the eclipse window
SessionStarts == {0, 15}

SessionExtents == {0, 2}

\* any sequence of calls of the three resolvers and the composite analysis on
\* one instance
InitSession ==
    InitWith([moon : {69453332}, sun : FirdariaSuns, asc : {5 * Deg},
              mc : {280 * Deg}])

NextSession ==
    \/ ZodiacalReleasing(HistoryDates)
    \/ VimshottariDasha(HistoryDates)
    \/ Firdaria(HistoryDates)
    \/ CompositeTimingAnalysisOver(SessionStarts, SessionExtents, {"varying"}, Skies)
    \/ Return

SpecSession == InitSession /\ [][NextSession]_vars

\* natal longitudes for the lots: the start and the last micro-degree of the
\* circle, and points whose sums and differences fall on, below and above a
\* full turn
LotLongitudes == {0, 40 * Deg, 100 * Deg, 160 * Deg, 200 * Deg, 300 * Deg,
                  360 * Deg - 1}

\* zodiacal releasing from both lots over every combination of LotLongitudes
InitLots ==
    InitWith([moon : LotLongitudes, sun : LotLongitudes, asc : LotLongitudes])

NextLots == ZodiacalReleasing(HistoryDates)

SpecLots == InitLots /\ [][NextLots]_vars

(***************************************************************************)
(* The call in a state.                                                    *)
(***************************************************************************)
Returned(op) == pc = "done" /\ call.op = op /\ result.exc = "none"

\* the query instant of the call, in ticks
query_instant == call.date * TicksPerDay

\* the query date is at or after the birth instant
AfterBirth == query_instant >= birth_time

(***************************************************************************)
(* Vimshottari: active rulers and sub-period partition.                    *)
(***************************************************************************)
\* C1: for every current_date at or after the birth instant (and a natal Moon
\* whose nakshatra has a ruler), calculate_vimshottari_dasha returns, and
\* exactly one entry of all_dashas is active (start <= current_date < end) and
\* is current_mahadasha, and exactly one antardasha of that mahadasha is active
\* and is current_antardasha; neither is None.
C1_OneActiveRulerPerLevel ==
    (/\ pc = "done"
     /\ call.op = "vimshottari_dasha"
     /\ AfterBirth
     /\ nakshatra(natal) < Len(nakshatra_rulers))
    => /\ result.exc = "none"
       /\ LET dashas == result.ret.all_dashas
              active == active_indices(dashas, query_instant)
          IN  /\ Cardinality(active) = 1
              /\ \A k \in active :
                    LET subs == antardasha_list(dashas[k])
                        active_subs == active_indices(subs, query_instant)
                    IN  /\ result.ret.current_mahadasha = Some(dashas[k])
                        /\ Cardinality(active_subs) = 1
                        /\ \A i \in active_subs :
                              result.ret.current_antardasha = Some(subs[i])

\* C2: for every mahadasha of the timeline, the shortened first one included,
\* _calculate_antardasha generates nine sub-periods, the first starting at the
\* mahadasha's start, each next one starting where the previous one ends, and
\* the ninth ending at the mahadasha's end.
C2_AntardashasPartitionMahadasha ==
    Returned("vimshottari_dasha")
    => \A k \in 1..Len(result.ret.all_dashas) :
          LET m == result.ret.all_dashas[k]
              subs == antardasha_list(m)
          IN  /\ Len(subs) = 9
              /\ subs[1].start = m.start
              /\ \A i \in 1..8 : subs[i + 1].start = subs[i].end
              /\ \A i \in 1..9 : subs[i].start <= subs[i].end
              /\ subs[9].end = m.end

(***************************************************************************)
(* Zodiacal releasing: nesting and boundaries.                             *)
(***************************************************************************)
\* entry i is the last period the result reports at its level
zr_last_of_level(periods, i) ==
    \A j \in (i + 1)..Len(periods) : periods[j].level # periods[i].level

\* C3: in the result of calculate_zodiacal_releasing every period of level
\* L + 1 lies inside the level-L period that covers the target (the last one
\* reported at level L): start_days >= the parent's start_days and
\* end_days <= the parent's end_days.
C3_ZRChildrenNestedInParent ==
    Returned("zodiacal_releasing")
    => LET periods == result.ret
       IN  \A i, j \in 1..Len(periods) :
              (/\ zr_last_of_level(periods, i)
               /\ periods[j].level = periods[i].level + 1)
              => /\ periods[j].start_days >= periods[i].start_days
                 /\ periods[j].end_days <= periods[i].end_days

\* C4: when days_elapsed equals the end_days of a period walked at some level,
\* the result holds a period of that level starting at days_elapsed, and the
\* period ending there is not the last one reported for its level.
C4_ZREndBelongsToNextPeriod ==
    Returned("zodiacal_releasing")
    => LET periods == result.ret
           days_elapsed == days_between(call.date, birth_time)
       IN  \A i \in 1..Len(periods) :
              periods[i].end_days = days_elapsed
              => /\ \E j \in 1..Len(periods) :
                       /\ periods[j].level = periods[i].level
                       /\ periods[j].start_days = days_elapsed
                 /\ ~zr_last_of_level(periods, i)

(***************************************************************************)
(* Boundaries of Vimshottari and Firdaria periods.                         *)
(***************************************************************************)
\* the years of the first i entries of a ruler sequence
RECURSIVE cumulative_years(_, _)
cumulative_years(sequence, i) ==
    IF i = 0 THEN 0 ELSE cumulative_years(sequence, i - 1) + sequence[i][2]

\* C5: a query instant equal to a period's end belongs to the following
\* period.  Vimshottari: when a mahadasha of the timeline, or an antardasha of
\* one, ends at current_date, the current mahadasha (antardasha) is another
\* period, which starts at current_date.  Firdaria: at elapsed years equal to
\* the cumulative end of major period i the result is major period i + 1 with
\* years_in = 0, and at years_in = k * (total_years / 7), 1 <= k <= 6, the
\* sub-period position is k + 1.
C5_PeriodEndIsExclusive ==
    /\ Returned("vimshottari_dasha")
       => \A k \in 1..Len(result.ret.all_dashas) :
             LET m == result.ret.all_dashas[k]
                 subs == antardasha_list(m)
             IN  /\ m.end = query_instant
                    => /\ result.ret.current_mahadasha # Some(m)
                       /\ result.ret.current_mahadasha[1].start = query_instant
                 /\ \A i \in 1..Len(subs) :
                       subs[i].end = query_instant
                       => /\ result.ret.current_antardasha # None
                          /\ result.ret.current_antardasha # Some(subs[i])
                          /\ result.ret.current_antardasha[1].start = query_instant
    /\ Returned("firdaria")
       => LET sequence == firdaria_sequence(natal)
              days_elapsed == days_between(call.date, birth_time)
          IN  /\ \A i \in 1..8 :
                    days_elapsed * 4 = 1461 * cumulative_years(sequence, i)
                    => /\ result.ret # None
                       /\ result.ret[1].major_period = sequence[i + 1][1]
                       /\ result.ret[1].years_in.num = 0
              /\ result.ret # None
                 => \A k \in 1..6 :
                       result.ret[1].years_in.num * 7
                          = k * result.ret[1].period_years * result.ret[1].years_in.den
                       => /\ result.ret[1].sub_period # None
                          /\ result.ret[1].sub_period[1].position = k + 1

(***************************************************************************)
(* Firdaria: horizon, sub-period order and index, tables.                  *)
(***************************************************************************)
\* C6: calculate_firdaria returns an active major period for every
\* current_date at or after the birth instant, ages of 75 years or more
\* included, where the ruler is the ruler at age mod 75.
C6_FirdariaAnswersAtAnyAge ==
    (pc = "done" /\ call.op = "firdaria" /\ AfterBirth)
    => LET days_elapsed == days_between(call.date, birth_time)
           sequence == firdaria_sequence(natal)
           wrapped == firdaria_walk(sequence, 1, 0,
                                    Rat((days_elapsed * 4) % (75 * 1461), 1461))
       IN  /\ result.exc = "none"
           /\ result.ret # None
           /\ result.ret[1].major_period = wrapped[1].major_period

\* C7: when the query date precedes the birth instant each resolver fails
\* with an out-of-domain error instead of returning a result or raising
\* another exception.
C7_BeforeBirthIsOutOfDomain ==
    (pc = "done" /\ query_instant < birth_time)
    => result.exc = "OutOfDomainError"

\* the seven-body list rotated cyclically to start with a body of the list
firdaria_rotation(major_planet) ==
    LET start == CHOOSE i \in 1..7 : firdaria_planets[i] = major_planet
    IN  [i \in 1..7 |-> firdaria_planets[((start - 1 + i - 1) % 7) + 1]]

\* C8: when the major ruler is one of the seven classical bodies the
\* sub-period ruler at index i is canonical[(index(major) + i) mod 7]; for a
\* day birth at age 12.5 the major ruler is venus with years_in 2.5 and
\* sub-period index 2, as in every call answered in that sub-period, and the
\* ruler is the third of the venus-first rotation.
C8_FirdariaSubRulersRotate ==
    (/\ Returned("firdaria")
     /\ result.ret # None
     /\ \E i \in 1..7 : firdaria_planets[i] = result.ret[1].major_period)
    => LET r == result.ret[1]
           scenario == firdaria_walk(firdaria_day_sequence, 1, 0, Rat(25, 2))
       IN  /\ r.sub_period # None
           /\ r.sub_period[1].ruler =
                 firdaria_rotation(r.major_period)[r.sub_period[1].position]
           /\ (/\ is_day_birth(natal)
               /\ r.major_period = "venus"
               /\ r.sub_period[1].position = 3)
              => /\ scenario # None
                 /\ scenario[1].major_period = "venus"
                 /\ scenario[1].years_in = Rat(5, 2)
                 /\ scenario[1].sub_period[1].position = 3
                 /\ scenario[1].sub_period[1].ruler = r.sub_period[1].ruler
                 /\ scenario[1].sub_period[1].ruler = firdaria_rotation("venus")[3]

\* C9: for every major period of total_years and every years_in with
\* 0 <= years_in < total_years the sub-period is not None, its index is
\* floor(7 * years_in / total_years) and lies in 0..6 (position in 1..7), and
\* the sub-period length is total_years / 7, seven of which make total_years.
C9_FirdariaSubperiodIndex ==
    (Returned("firdaria") /\ result.ret # None)
    => LET r == result.ret[1]
           index == CHOOSE q \in 0..(7 * r.period_years) :
                       /\ q * r.period_years * r.years_in.den <= 7 * r.years_in.num
                       /\ 7 * r.years_in.num < (q + 1) * r.period_years * r.years_in.den
       IN  /\ 0 <= r.years_in.num
           /\ r.years_in.num < r.period_years * r.years_in.den
           /\ r.sub_period # None
           /\ r.sub_period[1].position = index + 1
           /\ r.sub_period[1].position \in 1..7
           /\ 7 * r.sub_period[1].years.num = r.period_years * r.sub_period[1].years.den

\* a Firdaria call answered in the seventh sub-period of a major period
C9_Witness ==
    /\ Returned("firdaria")
    /\ result.ret # None
    /\ result.ret[1].sub_period # None
    /\ result.ret[1].sub_period[1].position = 7
    /\ result.ret[1].period_years = 13

\* the rulers of a ruler sequence
sequence_rulers(sequence) == { sequence[i][1] : i \in 1..Len(sequence) }

\* C10: the Firdaria sequence a call reports, for a day or a night birth,
\* holds the seven classical bodies, north_node and south_node once each, with
\* the durations the day and the night sequence both give them, summing to 75
\* years; dasha_sequence holds nine rulers whose years sum to 120.
C10_RulerTables ==
    /\ (Returned("firdaria") /\ result.ret # None)
       => LET sequence == result.ret[1].sequence
          IN  /\ Len(sequence) = 9
              /\ sequence_rulers(sequence) =
                    {"sun", "venus", "mercury", "moon", "saturn", "jupiter",
                     "mars", "north_node", "south_node"}
              /\ cumulative_years(sequence, 9) = 75
              /\ \A i \in 1..9 :
                    /\ \E j \in 1..9 : firdaria_day_sequence[j] = sequence[i]
                    /\ \E j \in 1..9 : firdaria_night_sequence[j] = sequence[i]
    /\ Len(dasha_sequence) = 9
    /\ Cardinality(sequence_rulers(dasha_sequence)) = 9
    /\ cumulative_years(dasha_sequence, 9) = 120

\* a Firdaria call of a night birth that reported its sequence
C10_Witness ==
    /\ Returned("firdaria")
    /\ ~is_day_birth(natal)
    /\ result.ret # None
    /\ result.ret[1].sequence = firdaria_night_sequence

(***************************************************************************)
(* Zodiacal releasing: the table of year-counts.                           *)
(***************************************************************************)
\* the year-counts of the spec, Aries to Pisces
traditional_years == <<15, 8, 20, 25, 19, 20, 8, 15, 12, 27, 30, 12>>

RECURSIVE sum_years(_, _)
sum_years(table, i) == IF i = 0 THEN 0 ELSE table[signs[i]] + sum_years(table, i - 1)

\* the table a resolved releasing has used: the year-counts in zodiacal order,
\* and the length of the first level-1 period
uses_traditional_years ==
    /\ [i \in 1..12 |-> sign_periods[signs[i]]] = traditional_years
    /\ result.ret[1].end_days - result.ret[1].start_days
       = 360 * traditional_years[sign_index(result.ret[1].sign)]

\* C11 as stated: sign_periods assigns the year-counts
\* (15,8,20,25,19,20,8,15,12,27,30,12) to Aries..Pisces in zodiacal order and
\* the twelve year-counts sum to 231 years.
C11_TableSumsTo231 ==
    (Returned("zodiacal_releasing") /\ Len(result.ret) > 0)
    => /\ uses_traditional_years
       /\ sum_years(sign_periods, 12) = 231

\* C11 amended: sign_periods assigns the year-counts
\* (15,8,20,25,19,20,8,15,12,27,30,12) to Aries..Pisces in zodiacal order, the
\* first level-1 period of a releasing spans 360 days per year of its sign's
\* year-count, and the twelve year-counts sum to 211 years.
C11_SignPeriodsTable ==
    (Returned("zodiacal_releasing") /\ Len(result.ret) > 0)
    => /\ uses_traditional_years
       /\ sum_years(sign_periods, 12) = 211

\* a releasing from Leo has been resolved: 19 years of 360 days
C11_Witness ==
    /\ Returned("zodiacal_releasing")
    /\ Len(result.ret) > 0
    /\ result.ret[1].sign = "Leo"
    /\ result.ret[1].end_days = 19 * 360

(***************************************************************************)
(* Vimshottari: the first mahadasha.                                       *)
(***************************************************************************)
\* C12: the first mahadasha of all_dashas is ruled by the ruler of the natal
\* Moon's nakshatra (the nine rulers indexed by the nakshatra modulo 9), starts
\* at the birth instant, and lasts the ruler's full years times (1 - the
\* fraction of the nakshatra band already traversed), to the tick; with
\* nakshatra 3 (the Moon's, 10 years) 40% traversed it is the Moon's and
\* lasts 6 years.
C12_FirstMahadasha ==
    Returned("vimshottari_dasha")
    => LET first == result.ret.all_dashas[1]
           ruler == dasha_rulers[(nakshatra(natal) % 9) + 1]
           traversed == nakshatra_degree(natal)
           \* full years * (1 - traversed / span) years, in whole ticks
           whole_ticks == mul_divmod(dasha_years[ruler] * TicksPerYear,
                                     nakshatra_span - traversed, nakshatra_span)[1]
       IN  /\ first.mahadasha = ruler
           /\ first.start = birth_time
           /\ first.years.whole = dasha_years[ruler]
           /\ first.years.den = nakshatra_span
           /\ first.years.den - first.years.num = traversed
           /\ first.end - first.start \in {whole_ticks, whole_ticks + 1}
           /\ (nakshatra(natal) = 3 /\ traversed = (2 * nakshatra_span) \div 5)
              => /\ first.mahadasha = "moon"
                 /\ dasha_years[first.mahadasha] = 10
                 /\ first.end - first.start = 6 * TicksPerYear

\* a Moon 40% through nakshatra 3 has been resolved to a first mahadasha of 6
\* years
C12_Witness ==
    /\ Returned("vimshottari_dasha")
    /\ nakshatra(natal) = 3
    /\ nakshatra_degree(natal) = (2 * nakshatra_span) \div 5
    /\ birth_time > 0
    /\ result.ret.all_dashas[1].end = birth_time + 6 * TicksPerYear

(***************************************************************************)
(* Zodiacal releasing: period lengths.                                     *)
(***************************************************************************)
\* days in the unit of each level: 360-day years, 30-day months, weeks, days
level_unit == <<360, 30, 7, 1>>

\* the sign of the starting Lot of the call
starting_sign ==
    get_zodiac_sign(IF call.starting_lot = "fortune"
                    THEN calculate_arabic_parts(natal).part_of_fortune
                    ELSE _calculate_lot_of_spirit(natal)).sign

\* C13: every period of a releasing spans the year-count N of its sign times
\* the unit of its level: N*360 days at level 1 (19*360 for Leo), N*30 at
\* level 2, N*7 at level 3, N at level 4; and the first period reported is at
\* level 1, starts at day 0 and has the full length of the starting Lot's sign.
C13_ZRPeriodLengths ==
    Returned("zodiacal_releasing")
    => /\ \A i \in 1..Len(result.ret) :
             LET p == result.ret[i]
             IN  /\ p.level \in 1..4
                 /\ p.end_days - p.start_days
                    = traditional_years[sign_index(p.sign)] * level_unit[p.level]
                 /\ (p.level = 1 /\ p.sign = "Leo")
                    => p.end_days - p.start_days = 19 * 360
       /\ Len(result.ret) > 0
          => /\ result.ret[1].level = 1
             /\ result.ret[1].sign = starting_sign
             /\ result.ret[1].start_days = 0
             /\ result.ret[1].end_days = 360 * traditional_years[sign_index(starting_sign)]

\* a releasing from Leo has been resolved down to level 4
C13_Witness ==
    /\ Returned("zodiacal_releasing")
    /\ Len(result.ret) >= 4
    /\ starting_sign = "Leo"
    /\ result.ret[1].end_days - result.ret[1].start_days = 6840
    /\ result.ret[Len(result.ret)].level = 4
    /\ \E i \in 1..Len(result.ret) : result.ret[i].level = 3 /\ result.ret[i].start_days > 0

(***************************************************************************)
(* Idempotence and history independence.                                   *)
(***************************************************************************)
\* what the call recorded in `call` returns on an instance with snapshot n
\* and birth instant bt that has served no call yet
first_call_result(n, bt) ==
    CASE call.op = "zodiacal_releasing"
           -> calculate_zodiacal_releasing(n, bt, call.starting_lot, call.date)
      [] call.op = "vimshottari_dasha" -> calculate_vimshottari_dasha(n, bt, call.date)
      [] call.op = "firdaria" -> calculate_firdaria(n, bt, call.date)
      [] OTHER -> [exc |-> "none", ret |-> None]

\* C14: after any sequence of earlier calls on the instance (other dates,
\* other systems, or the same call before), a resolver call with an explicit
\* date returns what the same call returns as the first call on an instance
\* constructed from the same natal snapshot; so two calls with identical
\* inputs return identical results.
C14_HistoryIndependent ==
    pc = "done"
    => /\ result = first_call_result(constructed.natal, constructed.birth_time)
       /\ (earlier # None /\ earlier[1].call = call) => earlier[1].result = result

\* a Vimshottari call has answered a second time running
C14_Witness ==
    /\ pc = "done"
    /\ earlier # None
    /\ earlier[1].call = call
    /\ call.op = "vimshottari_dasha"
    /\ call.date = 800
    /\ result.exc = "none"
    /\ result.ret.current_antardasha # None

(***************************************************************************)
(* Composite timing analysis: the score of a date.                         *)
(***************************************************************************)
\* number of hard transits (square, opposition) of a date of the analysis
hard_count(date) ==
    LET transits == transits_on(call.ephemeris, date)
    IN  Cardinality({ i \in 1..Len(transits) : transits[i] \in {"square", "opposition"} })

\* the active Vimshottari mahadasha ruler of a date
vimshottari_ruler(date) ==
    calculate_vimshottari_dasha(natal, birth_time, date).ret.current_mahadasha[1].mahadasha

\* the active Firdaria major ruler of a date, "none" past the cycle
firdaria_ruler(date) ==
    LET firdaria == calculate_firdaria(natal, birth_time, date).ret
    IN  IF firdaria = None THEN "none" ELSE firdaria[1].major_period

\* what transits and period rulers contribute to the score of a date
periods_score(date) ==
    3 * hard_count(date)
    + (IF vimshottari_ruler(date) \in {"mars", "saturn", "rahu", "ketu"} THEN 5 ELSE 0)
    + (IF firdaria_ruler(date) \in {"mars", "saturn", "south_node"} THEN 4 ELSE 0)

\* the eclipse records of the analysis
eclipse_records == calculate_eclipse_sensitivity(natal, call.sky)

\* no eclipse record lies less than 30 days from midnight of the date
no_eclipse_within_30_days(date) ==
    \A i \in 1..Len(eclipse_records) :
       abs(eclipse_records[i].date - date * TicksPerDay) >= 30 * TicksPerDay

\* C15: an entry of the analysis whose date has h hard transits and no eclipse
\* record within 30 days scores 3*h, plus 5 if the active Vimshottari
\* mahadasha ruler is mars, saturn, rahu or ketu, plus 4 if the active Firdaria
\* major ruler is mars, saturn or south_node; two hard transits under a
\* malefic Vimshottari ruler and a non-malefic Firdaria ruler score 11.
C15_ScoreWithoutEclipse ==
    Returned("composite_timing_analysis")
    => \A i \in 1..Len(result.ret.full_analysis) :
          LET e == result.ret.full_analysis[i]
          IN  no_eclipse_within_30_days(e.date)
              => /\ e.intensity_score = periods_score(e.date)
                 /\ (/\ hard_count(e.date) = 2
                     /\ vimshottari_ruler(e.date) \in {"mars", "saturn", "rahu", "ketu"}
                     /\ firdaria_ruler(e.date) \notin {"mars", "saturn", "south_node"})
                    => e.intensity_score = 11

\* a date with two hard transits, ketu's mahadasha, the Sun's Firdaria and the
\* only eclipse more than 30 days away has been scored 11
C15_Witness ==
    /\ Returned("composite_timing_analysis")
    /\ eclipse_records # <<>>
    /\ \E i \in 1..Len(result.ret.full_analysis) :
          LET e == result.ret.full_analysis[i]
          IN  /\ no_eclipse_within_30_days(e.date)
              /\ hard_count(e.date) = 2
              /\ e.dasha = "ketu"
              /\ e.firdaria = Some("sun")
              /\ e.intensity_score = 11

(***************************************************************************)
(* Composite timing analysis: eclipse proximity.                           *)
(***************************************************************************)
\* the date is within 30 days of an eclipse record, by the day count the
\* analysis itself uses
eclipse_within_30_days(date) ==
    \E i \in 1..Len(eclipse_records) : abs(eclipse_days(eclipse_records[i], date)) < 30

\* C16: eclipse proximity adds exactly 10 to the score of a date that is within
\* 30 days of a detected eclipse and nothing to any other date, however many
\* eclipse records fall within the window.
C16_EclipseAddsTenOnce ==
    Returned("composite_timing_analysis")
    => \A i \in 1..Len(result.ret.full_analysis) :
          LET e == result.ret.full_analysis[i]
          IN  e.intensity_score - periods_score(e.date)
              = IF eclipse_within_30_days(e.date) THEN 10 ELSE 0

(***************************************************************************)
(* Composite timing analysis: ranking and coverage of the range.           *)
(***************************************************************************)
\* C17: the entries of full_analysis are in descending order of
\* intensity_score, two entries of equal score have the earlier date first,
\* and peak_intensity_dates is the first min(10, n) entries of full_analysis.
C17_RankingOrder ==
    Returned("composite_timing_analysis")
    => LET full == result.ret.full_analysis
           n == Len(full)
       IN  /\ \A i, j \in 1..n :
                i < j => \/ full[i].intensity_score > full[j].intensity_score
                         \/ /\ full[i].intensity_score = full[j].intensity_score
                            /\ full[i].date < full[j].date
           /\ result.ret.peak_intensity_dates
              = SubSeq(full, 1, IF n < 10 THEN n ELSE 10)

\* more than ten dates have been ranked, with ties and with a later date
\* ranked first
C17_Witness ==
    /\ Returned("composite_timing_analysis")
    /\ Len(result.ret.full_analysis) > 10
    /\ Len(result.ret.peak_intensity_dates) = 10
    /\ result.ret.full_analysis[1].date > call.date_range_start
    /\ result.ret.full_analysis[1].intensity_score
       = result.ret.full_analysis[2].intensity_score
    /\ result.ret.full_analysis[1].intensity_score
       > result.ret.full_analysis[11].intensity_score

\* C18: an analysis whose dates are all at or after the birth instant returns,
\* and so does one whose date_range_start is after its date_range_end; when it
\* returns, full_analysis has exactly one entry for each date from
\* date_range_start to date_range_end inclusive, days between them + 1 entries
\* in all, and is empty when date_range_start is after date_range_end.
C18_OneEntryPerDate ==
    (pc = "done" /\ call.op = "composite_timing_analysis")
    => /\ (\/ call.date_range_start > call.date_range_end
           \/ call.date_range_start * TicksPerDay >= birth_time)
          => result.exc = "none"
       /\ result.exc = "none"
          => LET full == result.ret.full_analysis
             IN  /\ \A date \in call.date_range_start..call.date_range_end :
                      Cardinality({ i \in 1..Len(full) : full[i].date = date }) = 1
                 /\ \A i \in 1..Len(full) :
                      full[i].date \in call.date_range_start..call.date_range_end
                 /\ call.date_range_start <= call.date_range_end
                    => Len(full) = call.date_range_end - call.date_range_start + 1
                 /\ call.date_range_start > call.date_range_end
                    => full = <<>> /\ result.ret.peak_intensity_dates = <<>>

\* a range of twelve dates has been analysed and ranked out of date order
C18_Witness ==
    /\ Returned("composite_timing_analysis")
    /\ call.date_range_end = call.date_range_start + 11
    /\ Len(result.ret.full_analysis) = 12
    /\ result.ret.full_analysis[12].date < call.date_range_end

(***************************************************************************)
(* Zodiacal releasing: descent and advancement.                            *)
(***************************************************************************)
\* the sign one position backward in zodiacal order
sign_before(sign) == signs[IF sign_index(sign) = 1 THEN 12 ELSE sign_index(sign) - 1]

\* the sign one position forward in zodiacal order
sign_after(sign) == signs[IF sign_index(sign) = 12 THEN 1 ELSE sign_index(sign) + 1]

\* the loop variables when the loop of the call has ended
zr_exit ==
    zr_loop(natal, <<>>, 0, starting_sign, 1, days_between(call.date, birth_time))

\* C19: a period whose end exceeds days_elapsed is followed, below level 4, by
\* a period exactly one level down that starts at the same start_days and
\* whose sign is eleven positions forward, that is one backward (Aries ->
\* Pisces); at level 4 it is the last period, and the loop ends at level 5 with
\* the sign and the day cursor unchanged.
C19_ZRDescent ==
    Returned("zodiacal_releasing")
    => LET periods == result.ret
           days_elapsed == days_between(call.date, birth_time)
           exit == zr_exit
       IN  \A i \in 1..Len(periods) :
              periods[i].end_days > days_elapsed
              => IF periods[i].level < 4
                 THEN /\ i < Len(periods)
                      /\ periods[i + 1].level = periods[i].level + 1
                      /\ periods[i + 1].start_days = periods[i].start_days
                      /\ periods[i + 1].sign = sign_before(periods[i].sign)
                      /\ periods[i].sign = "Aries" => periods[i + 1].sign = "Pisces"
                 ELSE /\ i = Len(periods)
                      /\ exit.level = 5
                      /\ exit.current_sign = periods[i].sign
                      /\ exit.current_days = periods[i].start_days

\* a releasing has descended from Aries into Pisces at a later start day and
\* has ended below level 4
C19_Witness ==
    /\ Returned("zodiacal_releasing")
    /\ zr_exit.level = 5
    /\ \E i \in 1..(Len(result.ret) - 1) :
          /\ result.ret[i].sign = "Aries"
          /\ result.ret[i].start_days > 0
          /\ result.ret[i + 1].level = result.ret[i].level + 1
          /\ result.ret[i + 1].sign = "Pisces"
          /\ result.ret[i + 1].start_days = result.ret[i].start_days

\* C20: of two consecutive periods of the same level the second has the next
\* sign in zodiacal order (Aries after Pisces); the levels of the result start
\* at 1, never decrease, increase by exactly 1 at a time and never exceed 4.
C20_ZRAdvance ==
    Returned("zodiacal_releasing")
    => LET periods == result.ret
       IN  /\ Len(periods) > 0 => periods[1].level = 1
           /\ \A i \in 1..Len(periods) : periods[i].level \in 1..4
           /\ \A i \in 1..(Len(periods) - 1) :
                /\ periods[i + 1].level - periods[i].level \in {0, 1}
                /\ periods[i + 1].level = periods[i].level
                   => /\ periods[i + 1].sign = sign_after(periods[i].sign)
                      /\ periods[i].sign = "Pisces" => periods[i + 1].sign = "Aries"

\* a releasing has advanced from Pisces to Aries within a level and has
\* reached level 4
C20_Witness ==
    /\ Returned("zodiacal_releasing")
    /\ result.ret # <<>>
    /\ result.ret[Len(result.ret)].level = 4
    /\ \E i \in 1..(Len(result.ret) - 1) :
          /\ result.ret[i].level = result.ret[i + 1].level
          /\ result.ret[i].sign = "Pisces"
          /\ result.ret[i + 1].sign = "Aries"

(***************************************************************************)
(* Zodiacal releasing: siblings.                                           *)
(***************************************************************************)
\* C21: of two consecutive periods of the same level in the result of a
\* releasing, the second starts on the day the first ends, and every period
\* starts before it ends.
C21_ZRSiblingsContiguous ==
    Returned("zodiacal_releasing")
    => LET periods == result.ret
       IN  /\ \A i \in 1..Len(periods) : periods[i].start_days < periods[i].end_days
           /\ \A i \in 1..(Len(periods) - 1) :
                periods[i + 1].level = periods[i].level
                => periods[i].end_days = periods[i + 1].start_days

\* a releasing has walked three sibling periods at level 3 and siblings at
\* level 4
C21_Witness ==
    /\ Returned("zodiacal_releasing")
    /\ \E i \in 1..(Len(result.ret) - 2) :
          /\ result.ret[i].level = 3
          /\ result.ret[i + 1].level = 3
          /\ result.ret[i + 2].level = 3
          /\ result.ret[i + 1].start_days = result.ret[i].end_days
    /\ \E i \in 1..(Len(result.ret) - 1) :
          /\ result.ret[i].level = 4
          /\ result.ret[i + 1].level = 4

(***************************************************************************)
(* Zodiacal releasing: the active period of each level.                    *)
(***************************************************************************)
\* C22: when days_elapsed is at least 1 and is not the end_days of any period
\* walked, the result has periods of all four levels, and the last period
\* reported at each level is active: start_days <= days_elapsed < end_days.
C22_ZRActiveAtEveryLevel ==
    (/\ Returned("zodiacal_releasing")
     /\ days_between(call.date, birth_time) >= 1
     /\ \A i \in 1..Len(result.ret) :
           result.ret[i].end_days # days_between(call.date, birth_time))
    => LET periods == result.ret
           days_elapsed == days_between(call.date, birth_time)
       IN  \A level \in 1..4 :
              \E i \in 1..Len(periods) :
                 /\ periods[i].level = level
                 /\ zr_last_of_level(periods, i)
                 /\ periods[i].start_days <= days_elapsed
                 /\ days_elapsed < periods[i].end_days

\* a releasing has been resolved on a day past the first period of every
\* level, with no period ending on that day
C22_Witness ==
    /\ Returned("zodiacal_releasing")
    /\ \A i \in 1..Len(result.ret) :
          result.ret[i].end_days # days_between(call.date, birth_time)
    /\ \A level \in 1..4 :
          \E i \in 1..Len(result.ret) :
             /\ result.ret[i].level = level
             /\ zr_last_of_level(result.ret, i)
             /\ result.ret[i].start_days > 0
             /\ result.ret[i].start_days < days_between(call.date, birth_time)

(***************************************************************************)
(* Zodiacal releasing: termination of the walk.                            *)
(***************************************************************************)
\* C23: the loop ends: every iteration (one period of the result each) either
\* raises the level by one and keeps the day cursor, which happens at most
\* four times, or keeps the level and advances the cursor by at least 8 days,
\* so it makes at most 4 + days_elapsed / 8 iterations; and for days_elapsed
\* <= 0 the result is the empty list.
C23_ZRLoopTerminates ==
    Returned("zodiacal_releasing")
    => LET periods == result.ret
           days_elapsed == days_between(call.date, birth_time)
           last == periods[Len(periods)]
           exit == zr_exit
       IN  /\ days_elapsed <= 0 => periods = <<>>
           /\ ~zr_continues(exit.current_days, exit.level, days_elapsed)
           /\ exit.level <= 5
           /\ \A i \in 1..(Len(periods) - 1) :
                \/ /\ periods[i + 1].level = periods[i].level + 1
                   /\ periods[i + 1].start_days = periods[i].start_days
                \/ /\ periods[i + 1].level = periods[i].level
                   /\ periods[i + 1].start_days >= periods[i].start_days + 8
           /\ Len(periods) > 0
              => \/ /\ exit.level = last.level + 1
                    /\ exit.current_days = last.start_days
                 \/ /\ exit.level = last.level
                    /\ exit.current_days >= last.start_days + 8
           /\ days_elapsed >= 1 => Len(periods) <= 4 + (days_elapsed + 7) \div 8

\* a walk has ended before the birth date with nothing to report
C23_Witness ==
    /\ Returned("zodiacal_releasing")
    /\ days_between(call.date, birth_time) < 0
    /\ result.ret = <<>>
    /\ zr_exit.level = 1
    /\ zr_exit.current_days = 0

(***************************************************************************)
(* Zodiacal releasing: the advisory flags.                                 *)
(***************************************************************************)
\* the interval part of a list of periods
zr_intervals(periods) ==
    [i \in 1..Len(periods) |->
       <<periods[i].level, periods[i].sign, periods[i].start_days, periods[i].end_days>>]

\* the natal snapshot with the ascendant, and with it the Lot of Fortune,
\* moved k signs forward
with_fortune_moved(n, k) == [n EXCEPT !.asc = (n.asc + 30 * k * Deg) % (360 * Deg)]

rulers_from(ruler) ==
    LET k == CHOOSE k \in 1..9 : dasha_rulers[k] = ruler
    IN  [i \in 1..9 |-> dasha_rulers[((k - 1 + i - 1) % 9) + 1]]

\* C25: the antardashas built for the current mahadasha are ruled, in order, by
\* the canonical nine rulers (ketu, venus, sun, moon, mars, rahu, jupiter,
\* saturn, mercury) rotated to start with the mahadasha's own ruler, and each
\* lasts (its ruler's years * the mahadasha's years) / 120 years, the
\* mahadasha's years being its actual, possibly shortened, duration; the
\* antardashas reported are taken from that list.
C25_AntardashaOrderAndYears ==
    Returned("vimshottari_dasha")
    => LET mahadasha == result.ret.current_mahadasha[1]
           antardashas == antardasha_list(mahadasha)
           reported == result.ret.next_antardashas \o result.ret.current_antardasha
       IN  /\ dasha_rulers = <<"ketu", "venus", "sun", "moon", "mars", "rahu",
                               "jupiter", "saturn", "mercury">>
           /\ Len(antardashas) >= 1
           /\ antardashas[1].start = mahadasha.start
           /\ \A i \in 1..Len(antardashas) :
                LET a == antardashas[i]
                    \* (ruler years * mahadasha years) / 120 years, in whole ticks
                    whole_ticks ==
                        mul_divmod(dasha_years[a.planet] * mahadasha.years.whole
                                     * (TicksPerYear \div 120),
                                   mahadasha.years.num, mahadasha.years.den)[1]
                IN  /\ i <= 9
                    /\ a.planet = rulers_from(mahadasha.mahadasha)[i]
                    /\ a.years.whole = dasha_years[a.planet] * mahadasha.years.whole
                    /\ a.years.num = mahadasha.years.num
                    /\ a.years.den = 120 * mahadasha.years.den
                    /\ a.end - a.start \in {whole_ticks, whole_ticks + 1}
           /\ \A j \in 1..Len(reported) :
                \E i \in 1..Len(antardashas) : reported[j] = antardashas[i]

\* the antardashas of a shortened first mahadasha of the Moon have been
\* resolved: the Moon's own first, then Mars, Rahu and Jupiter
C25_Witness ==
    /\ Returned("vimshottari_dasha")
    /\ result.ret.current_mahadasha[1].mahadasha = "moon"
    /\ result.ret.current_mahadasha[1].years.num
       < result.ret.current_mahadasha[1].years.den
    /\ result.ret.current_antardasha # None
    /\ result.ret.current_antardasha[1].planet = "moon"
    /\ Len(result.ret.next_antardashas) = 3
    /\ result.ret.next_antardashas[1].planet = "mars"
    /\ result.ret.next_antardashas[3].planet = "jupiter"

(***************************************************************************)
(* Vimshottari: the timeline of mahadashas.                                *)
(***************************************************************************)
\* the ruler after `ruler` in the canonical order, ketu after mercury
ruler_after(ruler) == rulers_from(ruler)[2]

\* C26: all_dashas starts at the birth instant; each mahadasha starts at the
\* end of the one before and is ruled by the next ruler of the canonical order
\* (ketu after mercury); every mahadasha after the first lasts the full years
\* of its ruler; and the last one ends at or after current_date + 3650 days.
C26_DashaTimeline ==
    Returned("vimshottari_dasha")
    => LET dashas == result.ret.all_dashas
       IN  /\ Len(dashas) >= 1
           /\ dashas[1].start = birth_time
           /\ \A i \in 1..(Len(dashas) - 1) :
                /\ dashas[i + 1].start = dashas[i].end
                /\ dashas[i + 1].mahadasha = ruler_after(dashas[i].mahadasha)
                /\ dashas[i].mahadasha = "mercury" => dashas[i + 1].mahadasha = "ketu"
                /\ dashas[i + 1].years
                   = [whole |-> dasha_years[dashas[i + 1].mahadasha], num |-> 1, den |-> 1]
                /\ dashas[i + 1].end - dashas[i + 1].start
                   = dasha_years[dashas[i + 1].mahadasha] * TicksPerYear
           /\ dashas[Len(dashas)].end >= query_instant + 3650 * TicksPerDay

\* a timeline has been built past mercury's mahadasha into ketu's, its last
\* mahadasha ending more than ten years after the query date
C26_Witness ==
    /\ Returned("vimshottari_dasha")
    /\ Len(result.ret.all_dashas) >= 8
    /\ \E i \in 2..(Len(result.ret.all_dashas) - 1) :
          /\ result.ret.all_dashas[i].mahadasha = "mercury"
          /\ result.ret.all_dashas[i + 1].mahadasha = "ketu"
          /\ result.ret.all_dashas[i + 1].start = result.ret.all_dashas[i].end
    /\ result.ret.all_dashas[Len(result.ret.all_dashas)].end
       > query_instant + 3650 * TicksPerDay

(***************************************************************************)
(* Firdaria: node-ruled major periods.                                     *)
(***************************************************************************)
\* C27: in a major period ruled by north_node or south_node the sub-periods
\* keep the order sun, venus, mercury, moon, saturn, jupiter, mars: the ruler
\* of the sub-period of index i (i = floor(7 * years_in / total_years)) is the
\* i-th body of that list.
C27_NodeSubperiodsUnrotated ==
    (/\ Returned("firdaria")
     /\ result.ret # None
     /\ result.ret[1].major_period \in {"north_node", "south_node"})
    => LET r == result.ret[1]
           index == CHOOSE q \in 0..6 :
                       /\ q * r.period_years * r.years_in.den <= 7 * r.years_in.num
                       /\ 7 * r.years_in.num < (q + 1) * r.period_years * r.years_in.den
       IN  /\ r.sub_period # None
           /\ r.sub_period[1].ruler
              = <<"sun", "venus", "mercury", "moon", "saturn", "jupiter", "mars">>[index + 1]

\* a date in the fifth sub-period of the south node's major period has been
\* resolved to saturn
C27_Witness ==
    /\ Returned("firdaria")
    /\ result.ret # None
    /\ result.ret[1].major_period = "south_node"
    /\ result.ret[1].sub_period # None
    /\ result.ret[1].sub_period[1].position = 5
    /\ result.ret[1].sub_period[1].ruler = "saturn"

(***************************************************************************)
(* The natal snapshot.                                                     *)
(***************************************************************************)
\* C28: no resolver and no composite analysis changes the natal snapshot:
\* after any sequence of calls of calculate_zodiacal_releasing,
\* calculate_vimshottari_dasha, calculate_firdaria and
\* composite_timing_analysis the natal longitudes and the calculator's birth
\* instant are those taken at construction.
C28_NatalSnapshotUnchanged ==
    /\ natal = constructed.natal
    /\ birth_time = constructed.birth_time

\* a resolver has returned on an instance, born after midnight, that served a
\* composite analysis before
C28_Witness ==
    /\ pc = "done"
    /\ call.op \in {"zodiacal_releasing", "vimshottari_dasha", "firdaria"}
    /\ result.exc = "none"
    /\ earlier # None
    /\ earlier[1].call.op = "composite_timing_analysis"
    /\ earlier[1].result.exc = "none"
    /\ Len(earlier[1].result.ret.full_analysis) = 3
    /\ birth_time > 0

(***************************************************************************)
(* The lots.                                                               *)
(***************************************************************************)
\* C29: for every ascendant, Sun and Moon in [0, 360) the Lot of Fortune of
\* calculate_arabic_parts and the Lot of Spirit of _calculate_lot_of_spirit
\* lie in [0, 360), get_zodiac_sign maps each to one of the twelve signs, and
\* calculate_zodiacal_releasing finds its starting sign (it does not raise).
C29_LotsInCircle ==
    (pc = "done" /\ call.op = "zodiacal_releasing")
    => LET pof == calculate_arabic_parts(natal).part_of_fortune
           spirit == _calculate_lot_of_spirit(natal)
       IN  /\ 0 <= pof /\ pof < 360 * Deg
           /\ 0 <= spirit /\ spirit < 360 * Deg
           /\ pof \div (30 * Deg) \in 0..11
           /\ spirit \div (30 * Deg) \in 0..11
           /\ result.exc = "none"

(***************************************************************************)
(* The Moon's nakshatra.                                                   *)
(***************************************************************************)
\* C30: for every natal Moon in [0, 360) the sidereal longitude lies in
\* [0, 360), the nakshatra index (sidereal longitude divided by 13.333333,
\* truncated) lies in 0..26, the elapsed fraction lies in [0, 1), the lookup
\* of the starting ruler in the 27-entry table does not go out of range and
\* the remaining duration of the first mahadasha is positive.
C30_NakshatraInRange ==
    (pc = "done" /\ call.op = "vimshottari_dasha")
    => /\ 0 <= moon_sidereal(natal) /\ moon_sidereal(natal) < 360 * Deg
       /\ nakshatra(natal) \in 0..26
       /\ 0 <= nakshatra_degree(natal) /\ nakshatra_degree(natal) < nakshatra_span
       /\ result.exc = "none"
       /\ remaining_years(natal).whole > 0
       /\ remaining_years(natal).num > 0

====
